---- MODULE Spec2Model ----
(***************************************************************************)
(* HTTP/1.x message framing of request-rs: RequestParser::encode and      *)
(* ResponseParser::parse (src/proto/http1/parse.rs) with the keep-alive    *)
(* helpers of src/proto/http1/mod.rs.                                      *)
(*                                                                         *)
(* Buffers are sequences of byte values (ASCII codes).  Ranges are 0-based *)
(* and half-open, as in the code.                                          *)
(***************************************************************************)
EXTENDS Integers, Sequences, FiniteSets, TLC

VARIABLES
    buf,         \* the caller's BytesMut handed to ResponseParser::parse
    keep_alive,  \* ResponseParser.keep_alive
    result,      \* what the last call of parse returned
    wire,        \* the response the peer is sending (environment)
    req,         \* the Request<Body> handed to RequestParser::encode
    out,         \* what RequestParser::encode returned
    call,        \* one call of parse on a response given by its shape
    conn,        \* the HttpConnector and what its last operation returned
    client       \* HttpClient: the call of send in progress and its outcome

vars == <<buf, keep_alive, result, wire, req, out, call, conn, client>>

(***************************************************************************)
(* Bounds of the model.                                                    *)
(***************************************************************************)
MaxWireHeaders == 2    \* header lines of a generated response
MaxShortName == 3      \* longest of the short header names of a shape
MaxSent == 4           \* bytes written to one stream
NameWindow == 32       \* bytes a header name is first searched for its end
MaxBodyLen == 2        \* body bytes of a generated response
MaxTokens == 2         \* tokens of a generated Connection value
MaxReqHeaders == 3     \* header insertions of a generated request
MaxSends == 2          \* calls of send and send_request of one client

(***************************************************************************)
(* Byte strings.                                                           *)
(***************************************************************************)
CRLF == <<13, 10>>

Slice(b, start, end) == SubSeq(b, start + 1, end)

\* the strings of ss one after the other, put together by halves
RECURSIVE Concat(_)
Concat(ss) ==
    IF ss = <<>> THEN <<>>
    ELSE IF Len(ss) = 1 THEN ss[1]
    ELSE LET h == Len(ss) \div 2 IN
         Concat(SubSeq(ss, 1, h)) \o Concat(SubSeq(ss, h + 1, Len(ss)))

\* the least k with 2^k >= n: k doublings make n or more turns of a loop
Doublings(n) ==
    CHOOSE k \in 0..30 : 2 ^ k >= n /\ \A j \in 0..(k - 1) : 2 ^ j < n

IsPrefix(p, s) == Len(p) <= Len(s) /\ SubSeq(s, 1, Len(p)) = p

to_ascii_lowercase(c) == IF c >= 65 /\ c <= 90 THEN c + 32 ELSE c

Lower(s) == [i \in 1..Len(s) |-> to_ascii_lowercase(s[i])]

eq_ignore_ascii_case(a, b) == Lower(a) = Lower(b)

IsWhitespace(c) == c \in {9, 10, 11, 12, 13, 32}

RECURSIVE TrimStart(_)
TrimStart(s) ==
    IF s # <<>> /\ IsWhitespace(Head(s)) THEN TrimStart(Tail(s)) ELSE s

RECURSIVE TrimEnd(_)
TrimEnd(s) ==
    IF s # <<>> /\ IsWhitespace(s[Len(s)])
    THEN TrimEnd(SubSeq(s, 1, Len(s) - 1))
    ELSE s

trim(s) == TrimEnd(TrimStart(s))

\* str::split(','): the pieces between commas, empty pieces included
RECURSIVE SplitFrom(_, _, _)
SplitFrom(s, i, cur) ==
    IF i > Len(s) THEN <<cur>>
    ELSE IF s[i] = 44 THEN <<cur>> \o SplitFrom(s, i + 1, <<>>)
    ELSE SplitFrom(s, i + 1, Append(cur, s[i]))

split_comma(s) == SplitFrom(s, 1, <<>>)

(***************************************************************************)
(* The tokenizer, httparse::Response::parse, called at parse.rs:41.        *)
(* Positions i are 1-based indices of the next unread byte.                *)
(***************************************************************************)
is_header_name_token(c) ==
    \/ c >= 97 /\ c <= 122
    \/ c >= 65 /\ c <= 90
    \/ c >= 48 /\ c <= 57
    \/ c \in {33, 35, 36, 37, 38, 39, 42, 43, 45, 46, 94, 95, 96, 124, 126}

is_header_value_token(c) == c = 9 \/ (c >= 32 /\ c # 127)

TokPartial == [st |-> "Partial", len |-> 0, code |-> 0, version |-> 0,
               headers |-> <<>>]

TokError == [st |-> "Error", len |-> 0, code |-> 0, version |-> 0,
             headers |-> <<>>]

\* Position of the first byte that is not part of a leading empty line;
\* 0 when the input ran out, -1 on a CR not followed by LF.
RECURSIVE skip_empty_lines(_, _)
skip_empty_lines(b, i) ==
    IF i > Len(b) THEN 0
    ELSE IF b[i] = 13
         THEN IF i + 1 > Len(b) THEN 0
              ELSE IF b[i + 1] = 10 THEN skip_empty_lines(b, i + 2)
              ELSE -1
    ELSE IF b[i] = 10 THEN skip_empty_lines(b, i + 1)
    ELSE i

\* (mutant) a version token that is not yet whole is taken for a wrong one
parse_version_eager(b, i) ==
    IF i + 7 > Len(b) THEN -1
    ELSE IF SubSeq(b, i, i + 6) # <<72, 84, 84, 80, 47, 49, 46>> THEN -1
    ELSE IF b[i + 7] = 48 THEN 0
    ELSE IF b[i + 7] = 49 THEN 1
    ELSE -1

\* "HTTP/1." followed by 0 or 1, read as one block of eight bytes:
\* the minor version, -2 when fewer than eight bytes are there, -1 on mismatch.
parse_version(b, i) ==
    IF i + 7 > Len(b) THEN -2
    ELSE IF SubSeq(b, i, i + 6) # <<72, 84, 84, 80, 47, 49, 46>> THEN -1
    ELSE IF b[i + 7] = 48 THEN 0
    ELSE IF b[i + 7] = 49 THEN 1
    ELSE -1

IsDigit(c) == c >= 48 /\ c <= 57

\* three digits: the number, -2 when the input ran out, -1 on a non-digit
parse_code(b, i) ==
    IF i > Len(b) THEN -2
    ELSE IF ~IsDigit(b[i]) THEN -1
    ELSE IF i + 1 > Len(b) THEN -2
    ELSE IF ~IsDigit(b[i + 1]) THEN -1
    ELSE IF i + 2 > Len(b) THEN -2
    ELSE IF ~IsDigit(b[i + 2]) THEN -1
    ELSE (b[i] - 48) * 100 + (b[i + 1] - 48) * 10 + (b[i + 2] - 48)

\* the reason phrase up to its line end: the position after the line end,
\* 0 when the input ran out, -1 on a byte that may not occur
RECURSIVE parse_reason(_, _)
parse_reason(b, i) ==
    IF i > Len(b) THEN 0
    ELSE IF b[i] = 13
         THEN IF i + 1 > Len(b) THEN 0
              ELSE IF b[i + 1] = 10 THEN i + 2
              ELSE -1
    ELSE IF b[i] = 10 THEN i + 1
    ELSE IF ~((b[i] >= 32 /\ b[i] <= 126) \/ b[i] = 9) THEN -1
    ELSE parse_reason(b, i + 1)

\* Position of the first byte from j on that is no name byte, 0 when all are
\* name bytes; the next NameWindow bytes are looked at first.
name_end(b, j) ==
    LET hi == IF j + NameWindow < Len(b) THEN j + NameWindow ELSE Len(b)
        near == {k \in j..hi : ~is_header_name_token(b[k])}
        ends == IF near # {} THEN near
                ELSE {k \in (hi + 1)..Len(b) : ~is_header_name_token(b[k])}
    IN IF ends = {} THEN 0
       ELSE CHOOSE k \in ends : \A m \in ends : k <= m

\* the name ends at position e (0: the input ran out): e when a colon is
\* there, bad otherwise
colon_at(b, e, bad) == IF e = 0 THEN 0 ELSE IF b[e] = 58 THEN e ELSE bad

\* (mutant) a byte that may not occur in a name is taken for the input end
scan_name_lenient(b, j) == colon_at(b, name_end(b, j), 0)

\* position of the colon ending a header name; 0 ran out, -1 bad byte
scan_name(b, j) == colon_at(b, name_end(b, j), -1)

\* position of the first byte after the blanks that follow the colon
RECURSIVE skip_ws(_, _)
skip_ws(b, j) ==
    IF j > Len(b) THEN 0
    ELSE IF b[j] = 32 \/ b[j] = 9 THEN skip_ws(b, j + 1)
    ELSE j

\* position of the first byte that is not a header value byte; 0 ran out
RECURSIVE scan_value(_, _)
scan_value(b, j) ==
    IF j > Len(b) THEN 0
    ELSE IF ~is_header_value_token(b[j]) THEN j
    ELSE scan_value(b, j + 1)

\* what is known of a header line of which no more can be said
NoLine == [st |-> "Partial", next |-> 0,
           h |-> [name |-> [start |-> 0, end |-> 0],
                  value |-> [start |-> 0, end |-> 0]]]

\* the line end after a header value that ends at position e, h being the
\* header of the line
header_line_end(b, e, h) ==
    IF b[e] = 13
    THEN IF e + 1 > Len(b) THEN NoLine
         ELSE IF b[e + 1] = 10
              THEN [st |-> "Header", next |-> e + 2, h |-> h]
         ELSE [NoLine EXCEPT !.st = "Error"]
    ELSE IF b[e] = 10 THEN [st |-> "Header", next |-> e + 1, h |-> h]
    ELSE [NoLine EXCEPT !.st = "Error"]

\* the value that begins at position v (0: the input ran out) and ends at
\* position e (0: the input ran out), after a name from i to the colon at c
header_line_value(b, i, c, v, e) ==
    IF v = 0 \/ e = 0 THEN NoLine
    ELSE header_line_end(b, e,
             [name |-> [start |-> i - 1, end |-> c - 1],
              value |-> [start |-> v - 1, end |-> e - 1]])

\* the blanks after the colon at c, then the value from position v on
header_line_blanks(b, i, c, v) ==
    header_line_value(b, i, c, v, IF v = 0 THEN 0 ELSE scan_value(b, v))

\* the name from i to the colon at c (0: the input ran out, -1: a byte that
\* may not occur)
header_line_name(b, i, c) ==
    IF c = 0 THEN NoLine
    ELSE IF c = -1 THEN [NoLine EXCEPT !.st = "Error"]
    ELSE header_line_blanks(b, i, c, skip_ws(b, c + 1))

\* One line of the header block, from position i: "End" for the blank line,
\* "Header" for a header line (h is the pair of slices (name, value) of the
\* input, next the position after the line), "Partial" when the input ran
\* out, "Error" on a byte that may not occur.
header_line(b, i) ==
    IF i > Len(b) THEN NoLine
    ELSE IF b[i] = 13
         THEN IF i + 1 > Len(b) THEN NoLine
              ELSE IF b[i + 1] = 10
                   THEN [NoLine EXCEPT !.st = "End", !.next = i + 2]
              ELSE [NoLine EXCEPT !.st = "Error"]
    ELSE IF b[i] = 10 THEN [NoLine EXCEPT !.st = "End", !.next = i + 1]
    ELSE IF ~is_header_name_token(b[i]) THEN [NoLine EXCEPT !.st = "Error"]
    ELSE header_line_name(b, i, scan_name(b, i + 1))

\* One turn of the loop over the header lines, into at most n header slots.
\* s.st is "More" while lines are to be read, s.next the position of the
\* next line, s.headers the headers located so far.  A line that begins
\* with a name byte when no slot is left is an error (TooManyHeaders).
headers_turn_on(b, n, s, l) ==
    IF l.st = "End"
    THEN [st |-> "Complete", next |-> l.next, headers |-> s.headers]
    ELSE IF /\ s.next <= Len(b)
            /\ is_header_name_token(b[s.next])
            /\ Len(s.headers) = n
         THEN [s EXCEPT !.st = "Error"]
    ELSE IF l.st = "Header"
         THEN [st |-> "More", next |-> l.next,
               headers |-> Append(s.headers, l.h)]
    ELSE [s EXCEPT !.st = l.st]

headers_turn(b, n, s) == headers_turn_on(b, n, s, header_line(b, s.next))

\* 2^k turns of that loop, or as many as there are lines to be read
RECURSIVE headers_turns(_, _, _, _)
headers_turns(b, n, s, k) ==
    IF s.st # "More" THEN s
    ELSE IF k = 0 THEN headers_turn(b, n, s)
    ELSE headers_turns(b, n, headers_turns(b, n, s, k - 1), k - 1)

\* The header lines from position i up to the blank line, into at most n
\* header slots; hs are the headers located so far.  The loop ends after
\* n + 1 turns at the latest.
headers_status(s) ==
    IF s.st = "Complete"
    THEN [TokPartial EXCEPT !.st = "Complete", !.len = s.next - 1,
                            !.headers = s.headers]
    ELSE IF s.st = "Error" THEN TokError
    ELSE TokPartial

parse_headers_iter(b, i, n, hs) ==
    headers_status(
        headers_turns(b, n, [st |-> "More", next |-> i, headers |-> hs],
                      Doublings(n + 1)))

httparse_Response_parse(b, n) ==
    LET s == skip_empty_lines(b, 1) IN
    IF s = 0 THEN TokPartial
    ELSE IF s = -1 THEN TokError
    ELSE LET v == parse_version(b, s) IN
    IF v = -2 THEN TokPartial
    ELSE IF v = -1 THEN TokError
    ELSE IF s + 8 > Len(b) THEN TokPartial
    ELSE IF b[s + 8] # 32 THEN TokError
    ELSE LET c == parse_code(b, s + 9) IN
    IF c = -2 THEN TokPartial
    ELSE IF c = -1 THEN TokError
    ELSE IF s + 12 > Len(b) THEN TokPartial
    ELSE LET r == IF b[s + 12] = 32 THEN parse_reason(b, s + 13)
                  ELSE IF b[s + 12] = 13
                       THEN IF s + 13 > Len(b) THEN 0
                            ELSE IF b[s + 13] = 10 THEN s + 14
                            ELSE -1
                  ELSE IF b[s + 12] = 10 THEN s + 13
                  ELSE -1
         IN
    IF r = 0 THEN TokPartial
    ELSE IF r = -1 THEN TokError
    ELSE LET t == parse_headers_iter(b, r, n, <<>>) IN
         IF t.st = "Complete" THEN [t EXCEPT !.code = c, !.version = v]
         ELSE t


(***************************************************************************)
(* Keep-alive helpers, src/proto/http1/mod.rs.                             *)
(***************************************************************************)
NEEDLE_CLOSE == <<99, 108, 111, 115, 101>>                         \* "close"
NEEDLE_KEEP_ALIVE == <<107, 101, 101, 112, 45, 97, 108, 105, 118, 101>>
                                                               \* "keep-alive"
CONNECTION == <<99, 111, 110, 110, 101, 99, 116, 105, 111, 110>>
                                                               \* "connection"

\* HeaderValue::to_str succeeds on visible ASCII and tab only
to_str_ok(value) ==
    \A i \in 1..Len(value) :
        (value[i] >= 32 /\ value[i] < 127) \/ value[i] = 9

\* (mutant) the tokens are compared byte for byte
connection_has_exact(value, needle) ==
    /\ to_str_ok(value)
    /\ \E k \in 1..Len(split_comma(value)) :
          trim(split_comma(value)[k]) = needle

connection_has(value, needle) ==
    /\ to_str_ok(value)
    /\ \E k \in 1..Len(split_comma(value)) :
          eq_ignore_ascii_case(trim(split_comma(value)[k]), needle)

connection_keep_alive(value) == connection_has(value, NEEDLE_KEEP_ALIVE)

\* (mutant) looks for the needle of connection_keep_alive
connection_close_copied(value) == connection_has(value, NEEDLE_KEEP_ALIVE)

connection_close(value) == connection_has(value, NEEDLE_CLOSE)

(***************************************************************************)
(* ResponseParser::parse, src/proto/http1/parse.rs.                        *)
(***************************************************************************)
MAX_HEADERS == 100

\* usize arithmetic; TLC integers are narrower than usize, so the modulus
\* stands for 2^64
UsizeMod == 2 ^ 30

\* 1 << 16 of parse.rs:206
NameLimit == 65536

\* The builds the program can run as: with or without overflow checks.  The
\* static empty slices of httparse::EMPTY_HEADER lie below the heap buffer.
\* name_max is the longest name HeaderName::from_bytes admits.
Builds ==
    [overflow_checks : BOOLEAN, bytes_ptr : {2 ^ 20}, static_ptr : {2 ^ 10},
     name_max : {NameLimit - 1}]

\* ... and the builds whose header module has its length limit one byte
\* lower, at the comparison with < in place of <=
BuildsOfNames ==
    [overflow_checks : BOOLEAN, bytes_ptr : {2 ^ 20}, static_ptr : {2 ^ 10},
     name_max : {NameLimit - 2, NameLimit - 1}]

\* a slice of the buffer as httparse hands it out: pointer and length
SliceOf(range, build) ==
    [ptr |-> build.bytes_ptr + range.start, len |-> range.end - range.start]

EMPTY_HEADER(build) ==
    [name |-> [ptr |-> build.static_ptr, len |-> 0],
     value |-> [ptr |-> build.static_ptr, len |-> 0]]

\* The header array of MAX_HEADERS slots after the tokenizer ran: the slots
\* of the located headers, and the number of slots still EMPTY_HEADER.
HeaderArray(located, build) ==
    [used |-> [k \in 1..Len(located) |->
                  [name |-> SliceOf(located[k].name, build),
                   value |-> SliceOf(located[k].value, build)]],
     unused |-> MAX_HEADERS - Len(located)]

\* a - b on usize: -1 stands for the overflow panic of a checked build
usize_sub(a, b, build) ==
    IF a >= b THEN a - b
    ELSE IF build.overflow_checks THEN -1
    ELSE a - b + UsizeMod

Range_new(start, end) == [start |-> start, end |-> end]

HeaderIndices_default ==
    [name |-> Range_new(0, 0), value |-> Range_new(0, 0)]

\* the HeaderIndices the loop body writes for one slot (parse.rs:210-216)
indices_of(header, build) ==
    LET name_start == usize_sub(header.name.ptr, build.bytes_ptr, build)
        value_start == usize_sub(header.value.ptr, build.bytes_ptr, build)
    IN [name |-> Range_new(name_start, name_start + header.name.len),
        value |-> Range_new(value_start, value_start + header.value.len)]

\* (mutant) a name of one byte more passes
slot_err_late(header) == header.name.len > NameLimit

\* a slot stops the loop: with Err on an oversized name, else with a panic
slot_err(header) == header.name.len >= NameLimit

slot_panic(header, build) ==
    \/ usize_sub(header.name.ptr, build.bytes_ptr, build) = -1
    \/ usize_sub(header.value.ptr, build.bytes_ptr, build) = -1

slot_stops(header, build) == slot_err(header) \/ slot_panic(header, build)

\* Fills one HeaderIndices per slot of the header array, in slot order, up
\* to the first slot that stops the loop; the unused slots are all alike, so
\* the first of them decides for all.
\* st is "Ok", "Err" (InvalidHeaderName) or "Panic".
record_header_indices(headers, build) ==
    LET stops == {k \in 1..Len(headers.used) :
                     slot_stops(headers.used[k], build)}
        first == IF stops = {} THEN Len(headers.used) + 1
                 ELSE CHOOSE k \in stops : \A j \in stops : k <= j
        empty_stops == /\ stops = {}
                       /\ headers.unused > 0
                       /\ slot_stops(EMPTY_HEADER(build), build)
    IN [st |-> IF stops # {}
               THEN IF slot_err(headers.used[first]) THEN "Err" ELSE "Panic"
               ELSE IF empty_stops
                    THEN IF slot_err(EMPTY_HEADER(build)) THEN "Err"
                         ELSE "Panic"
               ELSE "Ok",
        indices |-> [k \in 1..Len(headers.used) |->
                        IF k < first THEN indices_of(headers.used[k], build)
                        ELSE HeaderIndices_default],
        unused |-> IF stops = {} /\ ~empty_stops /\ headers.unused > 0
                   THEN indices_of(EMPTY_HEADER(build), build)
                   ELSE HeaderIndices_default]

\* StatusCode::from_u16
StatusCode_from_u16_ok(code) == code >= 100 /\ code <= 999

\* HeaderName::from_bytes: the lower-cased name, <<>> for an invalid name
HeaderName_from_bytes(s) ==
    IF s # <<>> /\ \A i \in 1..Len(s) : is_header_name_token(s[i])
    THEN Lower(s)
    ELSE <<>>

\* HeaderName::from_bytes(..)? of parse.rs:68 in a build: names longer than
\* the header module admits are invalid as well
HeaderName_of(s, build) ==
    IF Len(s) > build.name_max THEN <<>> ELSE HeaderName_from_bytes(s)

\* HeaderMap::append: one more entry, after those already there
HeaderMap_append(hm, name, value) ==
    Append(hm, [name |-> name, value |-> value])

\* iterating a HeaderMap: its entries in insertion order
HeaderMap_iter(hm) == hm

\* (mutant) header_map.insert: the entry takes the place of those of its name
insert_entry(hm, name, value) ==
    SelectSeq(hm, LAMBDA e : e.name # name)
        \o <<[name |-> name, value |-> value]>>

\* header_map.append(name, value) of parse.rs:79
append_entry(hm, name, value) == HeaderMap_append(hm, name, value)

\* One turn of the loop of parse.rs:67-80.  s.k is the entry the turn is
\* about, s.header_map the HeaderMap so far, s.keep_alive the running
\* keep-alive assumption; s.ok is false once a name was refused.
header_loop_turn(headers_buf, indices, s, build) ==
    LET k == s.k
        name == HeaderName_of(
                    Slice(headers_buf, indices[k].name.start,
                          indices[k].name.end), build)
        value == Slice(headers_buf, indices[k].value.start,
                       indices[k].value.end)
        ka == s.keep_alive
        ka2 == IF name = CONNECTION
               THEN IF ka THEN ~connection_close(value)
                    ELSE connection_keep_alive(value)
               ELSE ka
    IN
    IF name = <<>> THEN [s EXCEPT !.ok = FALSE]
    ELSE [ok |-> TRUE, k |-> k + 1,
          header_map |-> append_entry(s.header_map, name, value),
          keep_alive |-> ka2]

\* 2^j turns of that loop, or as many as there are entries left
RECURSIVE header_loop_turns(_, _, _, _, _, _)
header_loop_turns(headers_buf, indices, header_len, s, j, build) ==
    IF ~s.ok \/ s.k > header_len THEN s
    ELSE IF j = 0 THEN header_loop_turn(headers_buf, indices, s, build)
    ELSE header_loop_turns(headers_buf, indices, header_len,
             header_loop_turns(headers_buf, indices, header_len, s, j - 1,
                               build),
             j - 1, build)

\* the loop of parse.rs:67-80 from entry k on; hm is the HeaderMap so far,
\* ka the running keep-alive assumption
header_loop(headers_buf, indices, header_len, k, hm, ka, build) ==
    header_loop_turns(headers_buf, indices, header_len,
                      [ok |-> TRUE, k |-> k, header_map |-> hm,
                       keep_alive |-> ka],
                      Doublings(header_len), build)

NoResponse == [status |-> 0, version |-> "none", headers |-> <<>>,
               body |-> <<>>]

\* (mutant) a Partial answer leaves the flag set
Partial_return_flagged(b, ka) ==
    [kind |-> "Partial", resp |-> NoResponse, buf |-> b, keep_alive |-> TRUE]

\* (mutant) a Partial answer takes the bytes it has examined
Partial_return_taken(b, ka) ==
    [kind |-> "Partial", resp |-> NoResponse, buf |-> <<>>, keep_alive |-> ka]

\* return Ok(ParserResult::Partial) of parse.rs:54-56: buffer and flag are
\* what they were
Partial_return(b, ka) ==
    [kind |-> "Partial", resp |-> NoResponse, buf |-> b, keep_alive |-> ka]

\* the errors the ? of parse.rs:40-49 hand to the caller (tokenizer, status
\* code, record_header_indices): before split_to and before the flag is set
Error_return(b, ka) ==
    [kind |-> "Error", resp |-> NoResponse, buf |-> b, keep_alive |-> ka]

\* (mutant) the bytes after the header block are copied, the buffer stays
split_to_copied(b, at) == b

\* buf.split_to(len) of parse.rs:60: what stays in the caller's buffer
split_to(b, at) == SubSeq(b, at + 1, Len(b))

\* (mutant) the flag of the call before is carried into this one
keep_alive_init_carried(version, ka) == ka \/ version = "HTTP_11"

\* let mut keep_alive = version == Version::HTTP_11 of parse.rs:65; the
\* parser's flag ka is not read
keep_alive_init(version, ka) == version = "HTTP_11"

\* One call of parse on buffer b by a parser whose flag is ka.
\* kind is what the call returns, "Abort" when it panics; buf and keep_alive
\* are the buffer and the flag the call leaves behind.
ResponseParser_parse(b, ka, build) ==
    LET unchanged == [kind |-> "Partial", resp |-> NoResponse, buf |-> b,
                      keep_alive |-> ka]
        resp == httparse_Response_parse(b, MAX_HEADERS)
    IN
    IF resp.st = "Error" THEN Error_return(b, ka)
    ELSE IF resp.st = "Partial" THEN Partial_return(b, ka)
    ELSE IF ~StatusCode_from_u16_ok(resp.code)
         THEN Error_return(b, ka)
    ELSE
    LET len == resp.len
        version == IF resp.version = 1 THEN "HTTP_11" ELSE "HTTP_10"
        header_len == Len(resp.headers)
        rec == record_header_indices(HeaderArray(resp.headers, build), build)
    IN
    IF rec.st = "Err" THEN Error_return(b, ka)
    ELSE IF rec.st = "Panic" THEN [unchanged EXCEPT !.kind = "Abort"]
    ELSE
    LET headers_buf == SubSeq(b, 1, len)
        rest == split_to(b, len)
        lp == header_loop(headers_buf, rec.indices, header_len, 1, <<>>,
                          keep_alive_init(version, ka), build)
    IN
    IF ~lp.ok
    THEN [kind |-> "Error", resp |-> NoResponse, buf |-> rest,
          keep_alive |-> ka]
    ELSE IF header_len > Len(rest)
         THEN [kind |-> "Abort", resp |-> NoResponse, buf |-> rest,
               keep_alive |-> lp.keep_alive]
    ELSE [kind |-> "Complete",
          resp |-> [status |-> resp.code, version |-> version,
                    headers |-> lp.header_map,
                    body |-> SubSeq(rest, header_len + 1, Len(rest))],
          buf |-> rest, keep_alive |-> lp.keep_alive]


(***************************************************************************)
(* The peer: responses as they appear on the wire, after the shape of the  *)
(* response of test_response (src/proto/http1/mod.rs).                     *)
(***************************************************************************)
H_CONNECTION == <<67, 111, 110, 110, 101, 99, 116, 105, 111, 110>>
                                                               \* "Connection"
WireHeaderPool ==
    { [name |-> <<65>>, value |-> <<98>>],                     \* A: b
      [name |-> H_CONNECTION, value |-> NEEDLE_CLOSE],
      [name |-> H_CONNECTION, value |-> NEEDLE_KEEP_ALIVE] }

SeqsUpTo(S, n) == UNION { [1..k -> S] : k \in 0..n }

\* n distinct body bytes: "xyz..."
BodyOfLen(n) == [i \in 1..n |-> 119 + i]

Digits3(code) ==
    <<48 + (code \div 100), 48 + ((code \div 10) % 10), 48 + (code % 10)>>

StatusLine(version, code) ==
    <<72, 84, 84, 80, 47, 49, 46, 48 + version, 32>> \o Digits3(code)
        \o <<32, 79, 75>> \o CRLF                  \* "HTTP/1.v ddd OK\r\n"

HeaderLine(h) == h.name \o <<58, 32>> \o h.value \o CRLF

HeaderLines(hs) == Concat([k \in 1..Len(hs) |-> HeaderLine(hs[k])])

\* status line, header lines and the blank line
WireHead(r) == StatusLine(r.version, r.code) \o HeaderLines(r.headers) \o CRLF

WireBytes(r) == WireHead(r) \o r.body

\* HTTP/1.1 responses carry status 200 and HTTP/1.0 responses status 404
WireResponses ==
    { r \in [version : {0, 1}, code : {200, 404},
             headers : SeqsUpTo(WireHeaderPool, MaxWireHeaders),
             body : {BodyOfLen(n) : n \in 0..MaxBodyLen}] :
        r.code = IF r.version = 1 THEN 200 ELSE 404 }

\* a response on its way: what it is made of, its bytes, how it is malformed
\* ("none" when it is well-formed), and how many bytes were delivered
Sending(r, bytes, bad) ==
    [r |-> r, bytes |-> bytes, head |-> Len(WireHead(r)), bad |-> bad,
     tokens |-> <<>>, sent |-> 0]

WellFormed(r) == Sending(r, WireBytes(r), "none")

\* retry: the call before this one answered Partial, on a buffer that held
\* all that had arrived of the response and lacked its blank line
NoResult == [kind |-> "None", resp |-> NoResponse, input |-> <<>>,
             ka_before |-> FALSE, retry |-> FALSE]

NoRequest == [built |-> FALSE]

\* no response is on its way
NoWire == [r |-> [version |-> 1, code |-> 200, headers |-> <<>>,
                  body |-> <<>>],
           bytes |-> <<>>, head |-> 0, bad |-> "none", tokens |-> <<>>,
           sent |-> 0]

NoOutput == [kind |-> "None", bytes |-> <<>>]

\* no call of parse on a shaped response in this behaviour
NoCall == [input |-> [version |-> 1, lens |-> <<>>, body |-> 0],
           kind |-> "Unused", names |-> <<>>, total |-> 0, left |-> 0]

\* no HttpConnector in this behaviour
NoConn == [stream |-> "Unused", op |-> "none", ret |-> "None", sent |-> <<>>]

\* no call of HttpClient::send was made
NoClient ==
    [calls |-> 0, pc |-> 0, steps |-> <<>>, ret |-> "None", parsed |-> "None",
     via |-> "none"]

(***************************************************************************)
(* The decoder as a state machine: a caller that fills a buffer from the   *)
(* transport and calls parse on it.                                        *)
(***************************************************************************)
Init ==
    /\ \E r \in WireResponses : wire = WellFormed(r)
    /\ buf = <<>>
    /\ keep_alive = FALSE
    /\ result = NoResult
    /\ req = NoRequest
    /\ out = NoOutput
    /\ call = NoCall
    /\ conn = NoConn
    /\ client = NoClient

Alive == result.kind # "Abort"

\* what the caller knows of the last call when it goes on: whether it has to
\* retry on the response from its start
AfterPartial ==
    IF result.kind = "None" THEN result.retry
    ELSE /\ result.kind = "Partial"
         /\ result.input = SubSeq(wire.bytes, 1, wire.sent)
         /\ Len(result.input) < wire.head

\* the transport delivers bytes and the caller appends them to the buffer:
\* a first chunk of any length, then all the rest; the return value of the
\* previous call is dropped, the caller remembers that it has to retry
Recv ==
    /\ Alive
    /\ wire.sent < Len(wire.bytes)
    /\ \E k \in 1..(Len(wire.bytes) - wire.sent) :
          /\ wire.sent > 0 => k = Len(wire.bytes) - wire.sent
          /\ buf' = buf \o SubSeq(wire.bytes, wire.sent + 1, wire.sent + k)
          /\ wire' = [wire EXCEPT !.sent = wire.sent + k]
    /\ result' = [NoResult EXCEPT !.retry = AfterPartial]
    /\ UNCHANGED <<keep_alive, req, out, call, conn, client>>

\* the caller calls parse on what it has read and not yet had examined
Parse ==
    /\ Alive
    /\ buf # <<>>
    /\ result.kind = "None" \/ buf # result.input
    /\ \E build \in Builds :
       \E p \in {ResponseParser_parse(buf, keep_alive, build)} :
          /\ result' = [kind |-> p.kind, resp |-> p.resp, input |-> buf,
                        ka_before |-> keep_alive,
                        retry |-> AfterPartial]
          /\ buf' = p.buf
          /\ keep_alive' = p.keep_alive
    /\ UNCHANGED <<wire, req, out, call, conn, client>>

\* the connection may be reused: the caller drops the buffer and keeps the
\* parser for the next response
Reuse ==
    /\ result.kind = "Complete"
    /\ keep_alive
    /\ result.input = wire.bytes
    /\ wire' = NoWire
    /\ buf' = <<>>
    /\ result' = NoResult
    /\ UNCHANGED <<keep_alive, req, out, call, conn, client>>

\* the peer begins to send the next response on the reused connection
NextResponse ==
    /\ wire = NoWire
    /\ \E r \in WireResponses : wire' = WellFormed(r)
    /\ UNCHANGED <<buf, keep_alive, result, req, out, call, conn, client>>

Next == Recv \/ Parse \/ Reuse \/ NextResponse

Spec == Init /\ [][Next]_vars

(***************************************************************************)
(* What a call of parse was given, in terms of the response on the wire.   *)
(***************************************************************************)
Called == result.kind # "None"

\* the buffer parse was called on held the first bytes of the response
FromStart == Called /\ wire # NoWire /\ IsPrefix(result.input, wire.bytes)

\* ... up to and including the blank line that ends the header block
HeldHead == FromStart /\ Len(result.input) >= wire.head

\* ... and ended before that blank line was whole
CutBeforeBlankLine == FromStart /\ Len(result.input) < wire.head

BytesAfterHead == SubSeq(result.input, wire.head + 1, Len(result.input))


(***************************************************************************)
(* Malformed responses: a well-formed response with one byte (or the three *)
(* status digits) overwritten, so that the lengths stay what they were.    *)
(***************************************************************************)
BadKinds == {"none", "version", "status", "range", "barecr", "nocolon",
             "nulvalue"}

\* index of the colon of the first header line
FirstColon(r) == Len(StatusLine(r.version, r.code)) + Len(r.headers[1].name) + 1

Corrupt(r, bad) ==
    LET b == WireBytes(r) IN
    CASE bad = "none" -> b
      [] bad = "version" -> [b EXCEPT ![6] = 50]            \* "HTTP/2.1"
      [] bad = "status" -> [b EXCEPT ![11] = 120]           \* "2x0"
      [] bad = "range" -> [b EXCEPT ![10] = 48, ![11] = 57, ![12] = 57]
                                                             \* "099"
      [] bad = "barecr" -> [b EXCEPT ![17] = 120]           \* "OK\rx"
      [] bad = "nocolon" -> [b EXCEPT ![FirstColon(r)] = 32]     \* "A  b"
      [] bad = "nulvalue" -> [b EXCEPT ![FirstColon(r) + 2] = 0]

BadResponses ==
    { r \in WireResponses :
        r.version = 1 /\ Len(r.body) \in {0, MaxBodyLen} }

InitBad ==
    /\ \E r \in BadResponses, bad \in BadKinds :
          /\ bad \in {"nocolon", "nulvalue"} => Len(r.headers) >= 1
          /\ wire = Sending(r, Corrupt(r, bad), bad)
    /\ buf = <<>>
    /\ keep_alive = FALSE
    /\ result = NoResult
    /\ req = NoRequest
    /\ out = NoOutput
    /\ call = NoCall
    /\ conn = NoConn
    /\ client = NoClient

NextBad == Recv \/ Parse

SpecBad == InitBad /\ [][NextBad]_vars

(***************************************************************************)
(* Responses with exactly one Connection header that carries a list of     *)
(* tokens, read whole into the buffer before parse is called               *)
(* (src/client/client.rs:80-85).                                           *)
(***************************************************************************)
TokenPool ==
    { NEEDLE_CLOSE,
      <<67, 108, 111, 115, 101>>,                                \* "Close"
      <<32, 99, 108, 111, 115, 101>>,                            \* " close"
      NEEDLE_KEEP_ALIVE,
      <<75, 69, 69, 80, 45, 65, 76, 73, 86, 69, 32>>,      \* "KEEP-ALIVE "
      <<117, 112, 103, 114, 97, 100, 101>> }                   \* "upgrade"

RECURSIVE JoinComma(_)
JoinComma(ts) ==
    IF Len(ts) = 1 THEN ts[1] ELSE ts[1] \o <<44>> \o JoinComma(Tail(ts))

InitKA ==
    /\ \E version \in {0, 1}, code \in {200, 404},
          ts \in SeqsUpTo(TokenPool, MaxTokens) \ {<<>>} :
          LET r == [version |-> version, code |-> code,
                    headers |-> <<[name |-> H_CONNECTION,
                                   value |-> JoinComma(ts)]>>,
                    body |-> BodyOfLen(1)]
          IN /\ wire = [WellFormed(r) EXCEPT !.tokens = ts,
                                             !.sent = Len(WireBytes(r))]
             /\ buf = WireBytes(r)
    /\ keep_alive = FALSE
    /\ result = NoResult
    /\ req = NoRequest
    /\ out = NoOutput
    /\ call = NoCall
    /\ conn = NoConn
    /\ client = NoClient

NextKA == Parse

SpecKA == InitKA /\ [][NextKA]_vars


(***************************************************************************)
(* Big responses, read whole into the buffer before parse is called: as    *)
(* many header lines as the tokenizer has slots (MAX_HEADERS), a few less, *)
(* a few more.                                                             *)
(***************************************************************************)
H_A == [name |-> <<65>>, value |-> <<98>>]                        \* A: b

\* a header whose name is n times "a"
LongHeader(n) == [name |-> [i \in 1..n |-> 97], value |-> <<98>>]

ManyResponses ==
    { [version |-> v, code |-> 200, headers |-> [k \in 1..c |-> H_A],
       body |-> BodyOfLen(n)] :
        v \in {0, 1},
        c \in (MAX_HEADERS - 3)..(MAX_HEADERS + 2),
        n \in {0, MaxBodyLen, MAX_HEADERS - 1, MAX_HEADERS,
               MAX_HEADERS + 1} }

InitBig ==
    /\ \E r \in ManyResponses :
          /\ wire = [WellFormed(r) EXCEPT !.sent = Len(WireBytes(r))]
          /\ buf = WireBytes(r)
    /\ keep_alive = FALSE
    /\ result = NoResult
    /\ req = NoRequest
    /\ out = NoOutput
    /\ call = NoCall
    /\ conn = NoConn
    /\ client = NoClient

NextBig == Parse

SpecBig == InitBig /\ [][NextBig]_vars

(***************************************************************************)
(* Responses given by their shape (the lengths of their header names),     *)
(* read whole and handed to parse once on a new parser: the bytes exist    *)
(* only during the call, the state keeps the shape and what parse          *)
(* answered.                                                               *)
(***************************************************************************)
ShortNameLens == 1..MaxShortName

LongNameLens == {NameLimit - 1, NameLimit, NameLimit + 1}

ShapedLens ==
    { <<l>> : l \in ShortNameLens \cup LongNameLens }
    \cup { <<k, l>> : k, l \in ShortNameLens }
    \cup { <<1, l>> : l \in LongNameLens }
    \cup { <<l, 1>> : l \in LongNameLens }

Shapes ==
    { [version |-> v, lens |-> ls, body |-> n] :
        v \in {0, 1}, ls \in ShapedLens, n \in {0, MaxBodyLen} }

\* the response of a shape
ShapedResponse(shape) ==
    [version |-> shape.version, code |-> 200,
     headers |-> [k \in 1..Len(shape.lens) |-> LongHeader(shape.lens[k])],
     body |-> BodyOfLen(shape.body)]

\* the lengths of the header names of a decoded response
NameLens(hm) == [k \in 1..Len(hm) |-> Len(hm[k].name)]

InitNames ==
    /\ \E shape \in Shapes :
          /\ Len(shape.lens) = 2 /\ shape.lens[1] + shape.lens[2] >= NameLimit
                => shape.version = 1
          /\ call = [NoCall EXCEPT !.input = shape, !.kind = "None"]
    /\ buf = <<>>
    /\ keep_alive = FALSE
    /\ result = NoResult
    /\ wire = NoWire
    /\ req = NoRequest
    /\ out = NoOutput
    /\ conn = NoConn
    /\ client = NoClient

\* ResponseParser::new().parse(...) on the bytes of the whole response;
\* total is the number of bytes of the buffer before the call, left their
\* number after it
CallParse ==
    /\ call.kind = "None"
    /\ \E build \in BuildsOfNames :
       \E p \in {ResponseParser_parse(
                     WireBytes(ShapedResponse(call.input)), FALSE, build)} :
          call' = [call EXCEPT
                        !.kind = p.kind,
                        !.names =
                            IF p.kind = "Complete"
                               THEN NameLens(HeaderMap_iter(p.resp.headers))
                               ELSE <<>>,
                        !.total = Len(WireBytes(ShapedResponse(call.input))),
                        !.left = Len(p.buf)]
    /\ UNCHANGED <<buf, keep_alive, result, wire, req, out, conn, client>>

NextNames == CallParse

SpecNames == InitNames /\ [][NextNames]_vars


(***************************************************************************)
(* The header collection of a decoded response.                            *)
(***************************************************************************)
\* HeaderMap::get_all: the values stored under a name, in their order
RECURSIVE HeaderMap_get_all(_, _)
HeaderMap_get_all(hm, key) ==
    IF hm = <<>> THEN <<>>
    ELSE (IF Head(hm).name = Lower(key) THEN <<Head(hm).value>> ELSE <<>>)
            \o HeaderMap_get_all(Tail(hm), key)

Range(f) == {f[x] : x \in DOMAIN f}

WireVersion == IF wire.r.version = 1 THEN "HTTP_11" ELSE "HTTP_10"

ConnectionLines ==
    {k \in 1..Len(wire.r.headers) : wire.r.headers[k].name = H_CONNECTION}

(***************************************************************************)
(* Claims about ResponseParser::parse.                                     *)
(***************************************************************************)

\* C1: when parse is called on a buffer that holds a complete response and
\* returns Complete, the body of the response is exactly the bytes of the
\* buffer after the blank line that ends the header block.
C1_BodyIsAllBytesAfterHead ==
    (HeldHead /\ result.kind = "Complete")
        => result.resp.body = BytesAfterHead

\* C2: on every buffer that holds a complete well-formed response, parse
\* returns Complete with the wire status, HTTP_11 for "HTTP/1.1" and HTTP_10
\* otherwise, and headers in which every wire header name leads to its value.
C2_CompleteWithStatusVersionHeaders ==
    HeldHead =>
        /\ result.kind = "Complete"
        /\ result.resp.status = wire.r.code
        /\ result.resp.version = WireVersion
        /\ \A k \in 1..Len(wire.r.headers) :
              wire.r.headers[k].value
                 \in Range(HeaderMap_get_all(result.resp.headers,
                                             wire.r.headers[k].name))

\* the part of C2 that the code keeps: what a Complete answer carries
C2_WhenComplete ==
    (HeldHead /\ result.kind = "Complete") =>
        /\ result.resp.status = wire.r.code
        /\ result.resp.version = WireVersion
        /\ \A k \in 1..Len(wire.r.headers) :
              wire.r.headers[k].value
                 \in Range(HeaderMap_get_all(result.resp.headers,
                                             wire.r.headers[k].name))

HasBlankLine(b) ==
    \E i \in 1..(Len(b) - 3) : SubSeq(b, i, i + 3) = CRLF \o CRLF

\* C4: parse answers Partial only on a buffer without the terminating blank
\* line, and a malformed response whose header block arrived whole (bad
\* status line, header line without colon, status code out of range) is
\* answered with an error.
C4_MalformedIsErrorNotPartial ==
    Called =>
        /\ result.kind = "Partial" => ~HasBlankLine(result.input)
        /\ (wire.bad # "none" /\ HeldHead) => result.kind = "Error"

\* parse answered a whole header block with a colon-less header line
C4_Witness ==
    /\ wire.bad = "nocolon"
    /\ HeldHead
    /\ result.kind = "Error"

\* C5: after parse returned Complete the flag is true for HTTP/1.1 without a
\* Connection header, false for HTTP/1.1 with Connection: close, false for
\* HTTP/1.0 without a Connection header, true for HTTP/1.0 with
\* Connection: keep-alive.
C5_KeepAliveMatrix ==
    (HeldHead /\ result.kind = "Complete") =>
        /\ (wire.r.version = 1 /\ ConnectionLines = {}) => keep_alive
        /\ (wire.r.version = 0 /\ ConnectionLines = {}) => ~keep_alive
        /\ \A k \in ConnectionLines :
              ConnectionLines = {k} =>
                 /\ (wire.r.version = 1
                       /\ wire.r.headers[k].value = NEEDLE_CLOSE)
                        => ~keep_alive
                 /\ (wire.r.version = 0
                       /\ wire.r.headers[k].value = NEEDLE_KEEP_ALIVE)
                        => keep_alive

\* an HTTP/1.0 response with Connection: keep-alive was decoded
C5_Witness ==
    /\ HeldHead
    /\ result.kind = "Complete"
    /\ wire.r.version = 0
    /\ \E k \in ConnectionLines :
          ConnectionLines = {k} /\ wire.r.headers[k].value = NEEDLE_KEEP_ALIVE
    /\ keep_alive

\* some token of the Connection value sent is the needle, blanks and letter
\* case aside
SentToken(needle) ==
    \E k \in 1..Len(wire.tokens) : Lower(trim(wire.tokens[k])) = needle

\* C6: for a response with exactly one Connection header carrying a token
\* list, the flag of an HTTP/1.1 response is false iff some token is "close"
\* and the flag of an HTTP/1.0 response is true iff some token is
\* "keep-alive".
C6_TokenListDecides ==
    (HeldHead /\ result.kind = "Complete" /\ wire.tokens # <<>>) =>
        /\ wire.r.version = 1 => (keep_alive <=> ~SentToken(NEEDLE_CLOSE))
        /\ wire.r.version = 0 => (keep_alive <=> SentToken(NEEDLE_KEEP_ALIVE))

\* an HTTP/1.1 response whose second token " close" turned the flag off
C6_Witness ==
    /\ HeldHead
    /\ result.kind = "Complete"
    /\ wire.r.version = 1
    /\ Len(wire.tokens) = 2
    /\ wire.tokens[1] = NEEDLE_KEEP_ALIVE
    /\ wire.tokens[2] = <<32, 99, 108, 111, 115, 101>>
    /\ ~keep_alive


\* C14: when parse returns Partial the buffer holds the bytes it held before
\* the call and the flag has the value it had before the call.
C14_PartialConsumesNothing ==
    result.kind = "Partial" =>
        /\ buf = result.input
        /\ keep_alive = result.ka_before

\* a parser whose flag was true answered Partial on a non-empty buffer
C14_Witness ==
    /\ result.kind = "Partial"
    /\ result.ka_before
    /\ keep_alive
    /\ result.input # <<>>
    /\ buf = result.input

\* C15: a call of parse on the same bytes, by a parser whose flag is true or
\* false beforehand, that returns Complete returns the response this call
\* returned and leaves the flag this call left.
C15_SameBytesSameResponse ==
    (Called /\ result.kind = "Complete") =>
        \A ka \in BOOLEAN, build \in Builds :
            LET again == ResponseParser_parse(result.input, ka, build) IN
            again.kind = "Complete" =>
                /\ again.resp.status = result.resp.status
                /\ again.resp.headers = result.resp.headers
                /\ again.resp.body = result.resp.body
                /\ again.keep_alive = keep_alive

\* an HTTP/1.0 response without Connection header was decoded by a parser
\* whose flag was true, and the flag is false as after a fresh parser
C15_Witness ==
    /\ HeldHead
    /\ result.kind = "Complete"
    /\ result.ka_before
    /\ wire.r.version = 0
    /\ ConnectionLines = {}
    /\ ~keep_alive

\* the caller got Partial on a buffer that held all that had arrived of the
\* response and lacked the blank line, appended the rest of the response
\* and called parse again on the same parser
Retried ==
    /\ Called
    /\ wire # NoWire
    /\ result.retry
    /\ wire.sent = Len(wire.bytes)

\* C16: a call of parse after a Partial call and the arrival of the rest
\* returns what one call of a fresh parser on the whole response returns:
\* the same kind of answer and, when it is Complete, the same response and
\* the same flag.
C16_RetryEqualsFresh ==
    Retried =>
        \E build \in Builds :
            LET fresh == ResponseParser_parse(wire.bytes, FALSE, build) IN
            /\ fresh.kind = result.kind
            /\ fresh.kind = "Complete" =>
                  /\ fresh.resp = result.resp
                  /\ fresh.keep_alive = keep_alive
                  /\ fresh.buf = buf

\* a response cut inside its header block was completed and decoded by a
\* parser whose flag was true before
C16_Witness ==
    /\ Retried
    /\ result.kind = "Complete"
    /\ result.ka_before
    /\ result.input = wire.bytes
    /\ Len(wire.r.headers) = 1
    /\ wire.r.version = 0
    /\ ~keep_alive

\* the values of the wire header lines named name, in wire order
WireValuesOf(name) ==
    LET sel == SelectSeq(wire.r.headers,
                         LAMBDA h : Lower(h.name) = Lower(name))
    IN [k \in 1..Len(sel) |-> sel[k].value]

\* C17: the header collection of a decoded response has as many entries as
\* the response has header lines, and under every name the values of the
\* lines of that name, each one, in wire order.
C17_OneEntryPerLine ==
    (HeldHead /\ result.kind = "Complete") =>
        /\ Len(result.resp.headers) = Len(wire.r.headers)
        /\ \A k \in 1..Len(wire.r.headers) :
              HeaderMap_get_all(result.resp.headers, wire.r.headers[k].name)
                 = WireValuesOf(wire.r.headers[k].name)

\* Connection: close followed by Connection: keep-alive was decoded
C17_Witness ==
    /\ HeldHead
    /\ result.kind = "Complete"
    /\ Len(wire.r.headers) = 2
    /\ HeaderMap_get_all(result.resp.headers, H_CONNECTION)
          = <<NEEDLE_CLOSE, NEEDLE_KEEP_ALIVE>>


\* the header lines of the called response that carry a name of NameLimit
\* bytes or more
OversizedLines ==
    {k \in 1..Len(call.input.lens) : call.input.lens[k] >= NameLimit}

\* the call returned an error before it took anything from the buffer, as
\* the errors of the tokenizer and of record_header_indices do
RefusedEarly == call.kind = "Error" /\ call.left = call.total

\* C12: a complete response with a header name longer than 65535 bytes is
\* answered with an error by the length check of record_header_indices; a
\* response whose longest name has 65535 bytes is not refused by that check
\* and not answered Partial, and when it is answered Complete the names have
\* their full length.
C12_OversizedNameIsError ==
    call.kind \notin {"Unused", "None"} =>
        /\ OversizedLines # {} => RefusedEarly
        /\ OversizedLines = {} =>
              /\ ~RefusedEarly
              /\ call.kind # "Partial"
              /\ call.kind = "Complete" => call.names = call.input.lens

\* a response whose second header has a name of exactly 65536 bytes was
\* answered with an error
C12_Witness ==
    /\ call.kind = "Error"
    /\ call.input.lens = <<1, NameLimit>>

\* C13: a complete response with more than MAX_HEADERS header lines is
\* answered with an error, and one with exactly MAX_HEADERS header lines is
\* answered Complete, with all its headers.
C13_TooManyIsErrorLimitIsAccepted ==
    HeldHead =>
        /\ Len(wire.r.headers) > MAX_HEADERS => result.kind = "Error"
        /\ Len(wire.r.headers) = MAX_HEADERS =>
              /\ result.kind = "Complete"
              /\ Len(result.resp.headers) = MAX_HEADERS

\* the part of C13 that the code keeps: more lines than slots is an error,
\* and a Complete answer on MAX_HEADERS lines holds them all
C13_WhenReturned ==
    HeldHead =>
        /\ Len(wire.r.headers) > MAX_HEADERS => result.kind = "Error"
        /\ (Len(wire.r.headers) = MAX_HEADERS /\ result.kind # "Abort") =>
              /\ result.kind = "Complete"
              /\ Len(result.resp.headers) = MAX_HEADERS

\* C21: every call of parse returns Complete, Partial or an error to its
\* caller; none aborts the process.
C21_ParseNeverAborts ==
    Called => result.kind \in {"Complete", "Partial", "Error"}

\* the Connection headers of the response that carry the token close
CloseLines ==
    {k \in ConnectionLines : wire.r.headers[k].value = NEEDLE_CLOSE}

\* C22: after a Complete parse of an HTTP/1.1 response in which some
\* Connection header carries the token close, the keep-alive flag is false,
\* whatever other Connection headers the response has.
C22_CloseDecides ==
    (HeldHead /\ result.kind = "Complete" /\ wire.r.version = 1
        /\ CloseLines # {})
        => ~keep_alive

\* C23: after parse returned Complete the caller's buffer holds the bytes it
\* held after the blank line that ends the header block, all of them and
\* nothing else.
C23_BufferIsBodyRegion ==
    (HeldHead /\ result.kind = "Complete") => buf = BytesAfterHead

\* a response with two headers and two body bytes was decoded, and the
\* buffer holds the two body bytes
C23_Witness ==
    /\ HeldHead
    /\ result.kind = "Complete"
    /\ Len(wire.r.headers) = 2
    /\ result.input = wire.bytes
    /\ buf = wire.r.body
    /\ Len(buf) = 2

\* a range lies within a buffer of n bytes
InBounds(range, n) ==
    /\ 0 <= range.start
    /\ range.start <= range.end
    /\ range.end <= n

EntryInBounds(entry, n) ==
    InBounds(entry.name, n) /\ InBounds(entry.value, n)

\* what record_header_indices writes when parse calls it on the buffer of
\* the last call, in a given build
Recorded(build) ==
    record_header_indices(
        HeaderArray(httparse_Response_parse(result.input, MAX_HEADERS).headers,
                    build),
        build)

\* every entry written lies within a buffer of n bytes: those of the
\* located headers and those of the slots left unused
AllWrittenInBounds(rec, n) ==
    /\ \A k \in 1..Len(rec.indices) : EntryInBounds(rec.indices[k], n)
    /\ EntryInBounds(rec.unused, n)

\* C24: every entry record_header_indices writes lies within the buffer it
\* was recorded against, and the entries of the located headers lie within
\* the header block.
C24_IndicesInBounds ==
    HeldHead =>
        \A build \in Builds :
            /\ AllWrittenInBounds(Recorded(build), Len(result.input))
            /\ \A k \in 1..Len(Recorded(build).indices) :
                  EntryInBounds(Recorded(build).indices[k], wire.head)

\* the buffer and the flag a call of parse leaves when it returns an error
\* are the buffer b and the flag ka it was called with
ErrorKeeps(again, b, ka) ==
    again.kind = "Error" => (again.buf = b /\ again.keep_alive = ka)

C26_EarlyErrorHasNoEffect ==
    (Called /\ result.kind = "Error") =>
        /\ buf = result.input
        /\ keep_alive = result.ka_before
        /\ \A ka \in BOOLEAN, build \in Builds :
              ErrorKeeps(ResponseParser_parse(result.input, ka, build),
                         result.input, ka)

\* the part of C24 that the code keeps: the entries of the located headers,
\* which parse slices, lie within the header block
C24_LocatedInHead ==
    HeldHead =>
        \A build \in Builds :
            \A k \in 1..Len(Recorded(build).indices) :
                EntryInBounds(Recorded(build).indices[k], wire.head)


(***************************************************************************)
(* RequestParser::encode, src/proto/http1/parse.rs.                        *)
(* Text is a sequence of code points, everything else is bytes.            *)
(***************************************************************************)
\* str::as_bytes: the UTF-8 encoding of a string of code points below 2048
RECURSIVE Utf8(_)
Utf8(text) ==
    IF text = <<>> THEN <<>>
    ELSE (IF Head(text) < 128 THEN <<Head(text)>>
          ELSE <<192 + (Head(text) \div 64), 128 + (Head(text) % 64)>>)
            \o Utf8(Tail(text))

Method_as_str(method) ==
    IF method = "GET" THEN <<71, 69, 84>> ELSE <<80, 79, 83, 84>>

Version_as_str(version) ==
    IF version = "HTTP_11" THEN <<72, 84, 84, 80, 47, 49, 46, 49>>
    ELSE <<72, 84, 84, 80, 47, 49, 46, 48>>

\* (mutant) the request line of the legacy Client: the path alone
ready_start_line_legacy(b, r, url) ==
    b \o Method_as_str(r.method) \o <<32>> \o url.path \o <<32>>
      \o Version_as_str(r.version) \o CRLF

ready_start_line(b, r, url) ==
    IF url.has_query
    THEN b \o Method_as_str(r.method) \o <<32>> \o url.path \o <<63>>
           \o url.query \o <<32>> \o Version_as_str(r.version) \o CRLF
    ELSE b \o Method_as_str(r.method) \o <<32>> \o url.path \o <<32>>
           \o Version_as_str(r.version) \o CRLF

\* (mutant) an entry whose value is not text is left out
RECURSIVE write_headers_lossy(_, _, _)
write_headers_lossy(b, entries, k) ==
    IF k > Len(entries) THEN [ok |-> TRUE, buf |-> b]
    ELSE IF ~to_str_ok(entries[k].value)
         THEN write_headers_lossy(b, entries, k + 1)
    ELSE write_headers_lossy(b \o entries[k].name \o <<58, 32>>
                               \o entries[k].value \o CRLF, entries, k + 1)

\* the loop of ready_headers over the entries from k on: Err as soon as a
\* value is not text
RECURSIVE write_headers(_, _, _)
write_headers(b, entries, k) ==
    IF k > Len(entries) THEN [ok |-> TRUE, buf |-> b]
    ELSE IF ~to_str_ok(entries[k].value) THEN [ok |-> FALSE, buf |-> b]
    ELSE write_headers(b \o entries[k].name \o <<58, 32>> \o entries[k].value
                         \o CRLF, entries, k + 1)

Reverse(q) == [k \in 1..Len(q) |-> q[Len(q) + 1 - k]]

\* (mutant) the entries are written last to first
ready_headers_reversed(b, r) ==
    write_headers(b, Reverse(HeaderMap_iter(r.headers)), 1)

\* (mutant) an entry whose name was written before is left out
ready_headers_dedup(b, r) ==
    LET es == HeaderMap_iter(r.headers)
        keep == {k \in 1..Len(es) :
                    \A j \in 1..(k - 1) : es[j].name # es[k].name}
        RECURSIVE pick(_)
        pick(k) == IF k > Len(es) THEN <<>>
                   ELSE (IF k \in keep THEN <<es[k]>> ELSE <<>>) \o pick(k + 1)
    IN write_headers(b, pick(1), 1)

ready_headers(b, r) == write_headers(b, HeaderMap_iter(r.headers), 1)

end_of_headers(b) == b \o CRLF

\* (mutant) the body is closed with a line end
ready_body_terminated(b, r) ==
    CASE r.body.kind = "Text" -> b \o Utf8(r.body.text) \o CRLF
      [] r.body.kind = "Binary" -> b \o r.body.bytes \o CRLF
      [] r.body.kind = "Empty" -> b

ready_body(b, r) ==
    CASE r.body.kind = "Text" -> b \o Utf8(r.body.text)
      [] r.body.kind = "Binary" -> b \o r.body.bytes
      [] r.body.kind = "Empty" -> b

RequestParser_ready(r) ==
    IF ~r.uri.set THEN [kind |-> "Err", bytes |-> <<>>]
    ELSE LET b1 == ready_start_line(<<>>, r, r.uri)
             h == ready_headers(b1, r)
         IN IF ~h.ok THEN [kind |-> "Err", bytes |-> <<>>]
            ELSE [kind |-> "Ok",
                  bytes |-> ready_body(end_of_headers(h.buf), r)]

RequestParser_encode(from) == RequestParser_ready(from)

(***************************************************************************)
(* The caller: a request put together with Request::builder(), as in       *)
(* test_request (src/proto/http1/mod.rs:42-47), then encoded.              *)
(***************************************************************************)
Body_empty == [kind |-> "Empty", text |-> <<>>, bytes |-> <<>>]

Body_from_str(text) == [kind |-> "Text", text |-> text, bytes |-> <<>>]

Body_from_bytes(bytes) == [kind |-> "Binary", text |-> <<>>, bytes |-> bytes]

Body_from_string(text) == [kind |-> "Text", text |-> text, bytes |-> <<>>]

Body_from_vec(vec) == [kind |-> "Binary", text |-> <<>>, bytes |-> vec]

\* (mutant) the length of a Text body counted in characters
Body_body_length_chars(body) ==
    CASE body.kind = "Text" -> Len(body.text)
      [] body.kind = "Binary" -> Len(body.bytes)
      [] body.kind = "Empty" -> 0

\* Body::body_length; String::len is the length in bytes
Body_body_length(body) ==
    CASE body.kind = "Text" -> Len(Utf8(body.text))
      [] body.kind = "Binary" -> Len(body.bytes)
      [] body.kind = "Empty" -> 0

Bodies ==
    { Body_empty,
      Body_from_str(<<117, 61, 49>>),                            \* "u=1"
      Body_from_str(<<233>>),                          \* e acute, two bytes
      Body_from_string(<<225, 33>>),              \* a acute and "!", three
      Body_from_bytes(<<0, 13, 10, 255>>),
      Body_from_vec(<<>>) }

NoUri == [set |-> FALSE, path |-> <<>>, has_query |-> FALSE, query |-> <<>>]

Uris ==
    [set : {TRUE}, path : {<<47>>, <<47, 97, 47, 98>>},     \* "/", "/a/b"
     has_query : {FALSE}, query : {<<>>}]
    \cup
    [set : {TRUE}, path : {<<47>>, <<47, 97, 47, 98>>},
     has_query : {TRUE}, query : {<<>>, <<113, 61, 49>>}]        \* "", "q=1"

\* header names and values as the caller writes them
ReqHeaderNames == { <<72, 111, 115, 116>>, <<65>> }              \* "Host", "A"

ReqHeaderValues == { <<104>>, <<118>>, <<200>> }     \* "h", "v", a non-text byte

Builder_new ==
    [built |-> FALSE, method |-> "GET", version |-> "HTTP_11", uri |-> NoUri,
     headers |-> <<>>, inserted |-> <<>>, body |-> Body_empty]

InitEnc ==
    /\ req = Builder_new
    /\ out = NoOutput
    /\ buf = <<>>
    /\ keep_alive = FALSE
    /\ result = NoResult
    /\ wire = NoWire
    /\ call = NoCall
    /\ conn = NoConn
    /\ client = NoClient

Building == ~req.built

SetMethod ==
    /\ Building
    /\ \E m \in {"GET", "POST"} : req' = [req EXCEPT !.method = m]
    /\ UNCHANGED <<out, buf, keep_alive, result, wire, call, conn, client>>

SetVersion ==
    /\ Building
    /\ \E v \in {"HTTP_10", "HTTP_11"} : req' = [req EXCEPT !.version = v]
    /\ UNCHANGED <<out, buf, keep_alive, result, wire, call, conn, client>>

SetUri ==
    /\ Building
    /\ \E u \in Uris : req' = [req EXCEPT !.uri = u]
    /\ UNCHANGED <<out, buf, keep_alive, result, wire, call, conn, client>>

\* .header(name, value): the name becomes a HeaderName, the entry is appended
AddHeader ==
    /\ Building
    /\ Len(req.inserted) < MaxReqHeaders
    /\ \E name \in ReqHeaderNames, value \in ReqHeaderValues :
          req' = [req EXCEPT
                    !.headers = HeaderMap_append(req.headers,
                                    HeaderName_from_bytes(name), value),
                    !.inserted = Append(req.inserted,
                                    [name |-> name, value |-> value])]
    /\ UNCHANGED <<out, buf, keep_alive, result, wire, call, conn, client>>

\* .body(body) ends the building
SetBody ==
    /\ Building
    /\ \E b \in Bodies : req' = [req EXCEPT !.body = b, !.built = TRUE]
    /\ UNCHANGED <<out, buf, keep_alive, result, wire, call, conn, client>>

Encode ==
    /\ req.built
    /\ out.kind = "None"
    /\ out' = RequestParser_encode(req)
    /\ UNCHANGED <<req, buf, keep_alive, result, wire, call, conn, client>>

NextEnc == SetMethod \/ SetVersion \/ SetUri \/ AddHeader \/ SetBody \/ Encode

SpecEnc == InitEnc /\ [][NextEnc]_vars


(***************************************************************************)
(* The legacy Client, src/client/mod.rs: Client::new builds the wire bytes *)
(* of a Request<Vec<u8>> into its own buffer.                              *)
(***************************************************************************)
\* the request line is written from the path of the url alone
Client_ready_start_line(b, r, url) ==
    b \o Method_as_str(r.method) \o <<32>> \o url.path \o <<32>>
      \o Version_as_str(r.version) \o CRLF

Client_ready_headers(b, r) == write_headers(b, HeaderMap_iter(r.headers), 1)

Client_end_of_headers(b) == b \o CRLF

\* every byte of the vector is put into the buffer
Client_ready_body(b, r) == b \o r.body

Client_ready(r) ==
    IF ~r.uri.set THEN [kind |-> "Err", bytes |-> <<>>]
    ELSE LET b1 == Client_ready_start_line(<<>>, r, r.uri)
             h == Client_ready_headers(b1, r)
         IN IF ~h.ok THEN [kind |-> "Err", bytes |-> <<>>]
            ELSE [kind |-> "Ok",
                  bytes |-> Client_ready_body(Client_end_of_headers(h.buf), r)]

Client_new(r) == Client_ready(r)

(***************************************************************************)
(* Reading an encoded request back: its lines up to the blank line, and    *)
(* what follows the blank line.                                            *)
(***************************************************************************)
\* index of the first CR LF at or after i, 0 when there is none
RECURSIVE FindCRLF(_, _)
FindCRLF(b, i) ==
    IF i + 1 > Len(b) THEN 0
    ELSE IF b[i] = 13 /\ b[i + 1] = 10 THEN i
    ELSE FindCRLF(b, i + 1)

\* the lines before the first empty line, and the index after that empty
\* line (0 when there is no empty line)
RECURSIVE SplitHead(_, _, _)
SplitHead(b, i, acc) ==
    LET e == FindCRLF(b, i) IN
    IF e = 0 THEN [lines |-> acc, next |-> 0]
    ELSE IF e = i THEN [lines |-> acc, next |-> i + 2]
    ELSE SplitHead(b, e + 2, Append(acc, SubSeq(b, i, e - 1)))

RECURSIVE SplitOn(_, _, _, _)
SplitOn(s, sep, i, cur) ==
    IF i > Len(s) THEN <<cur>>
    ELSE IF s[i] = sep THEN <<cur>> \o SplitOn(s, sep, i + 1, <<>>)
    ELSE SplitOn(s, sep, i + 1, Append(cur, s[i]))

\* a header line "name: value" taken apart at its first colon
RECURSIVE FindByte(_, _, _)
FindByte(s, c, i) ==
    IF i > Len(s) THEN 0 ELSE IF s[i] = c THEN i ELSE FindByte(s, c, i + 1)

LineEntry(l) ==
    LET c == FindByte(l, 58, 1) IN
    IF c = 0 \/ c + 1 > Len(l) \/ l[c + 1] # 32
    THEN [name |-> <<>>, value |-> l]
    ELSE [name |-> SubSeq(l, 1, c - 1), value |-> SubSeq(l, c + 2, Len(l))]

Encoded == out.kind = "Ok"

OutHead == SplitHead(out.bytes, 1, <<>>)

OutRequestLine == OutHead.lines[1]

OutHeaderEntries ==
    [k \in 1..(Len(OutHead.lines) - 1) |-> LineEntry(OutHead.lines[k + 1])]

OutBody == SubSeq(out.bytes, OutHead.next, Len(out.bytes))

Count(q, x) == Cardinality({k \in 1..Len(q) : q[k] = x})

SameBag(p, q) ==
    /\ Len(p) = Len(q)
    /\ \A x \in Range(p) \cup Range(q) : Count(p, x) = Count(q, x)

RECURSIVE SumLen(_)
SumLen(ls) == IF ls = <<>> THEN 0 ELSE Len(Head(ls)) + 2 + SumLen(Tail(ls))

Target ==
    IF req.uri.has_query THEN req.uri.path \o <<63>> \o req.uri.query
    ELSE req.uri.path

BodyBytes ==
    CASE req.body.kind = "Text" -> Utf8(req.body.text)
      [] req.body.kind = "Binary" -> req.body.bytes
      [] req.body.kind = "Empty" -> <<>>

(***************************************************************************)
(* Claims about RequestParser::encode.                                     *)
(***************************************************************************)

\* C7: the output begins with the request line METHOD SP target SP VERSION
\* CRLF, the target being path?query when the URL has a query and the path
\* alone when it has none.
C7_RequestLine ==
    Encoded =>
        /\ OutHead.next # 0
        /\ Len(OutHead.lines) >= 1
        /\ SplitOn(OutRequestLine, 32, 1, <<>>)
             = <<Method_as_str(req.method), Target,
                 Version_as_str(req.version)>>

\* a POST to /a/b?q=1 was encoded
C7_Witness ==
    /\ Encoded
    /\ req.method = "POST"
    /\ req.uri.has_query
    /\ req.uri.query = <<113, 61, 49>>
    /\ req.uri.path = <<47, 97, 47, 98>>

\* C8: the header lines come in the order in which the caller inserted the
\* headers, also when a name is inserted again after another name.
C8_HeaderOrder ==
    Encoded =>
        /\ Len(OutHeaderEntries) = Len(req.inserted)
        /\ \A k \in 1..Len(req.inserted) :
              /\ eq_ignore_ascii_case(OutHeaderEntries[k].name,
                                      req.inserted[k].name)
              /\ OutHeaderEntries[k].value = req.inserted[k].value

\* A, Host, A were inserted, the two A with different values, and encoded
C8_Witness ==
    /\ Encoded
    /\ Len(req.inserted) = 3
    /\ req.inserted[1].name = <<65>>
    /\ req.inserted[2].name = <<72, 111, 115, 116>>
    /\ req.inserted[3].name = <<65>>
    /\ req.inserted[1].value # req.inserted[3].value

\* C9: the header lines of the output are, as a multiset, the entries of the
\* request's header collection: none dropped, merged or added.
C9_HeaderLinesAreTheEntries ==
    Encoded => SameBag(OutHeaderEntries, HeaderMap_iter(req.headers))

\* two entries of the same name and value were encoded, and no Host entry
C9_Witness ==
    /\ Encoded
    /\ Len(req.headers) = 2
    /\ req.headers[1] = req.headers[2]
    /\ req.headers[1].name = <<97>>

\* C10: after the header block comes one blank line and then the body bytes
\* and nothing else, so the output is as long as the request line, the
\* header lines, the blank line and the body together.
C10_BodyFraming ==
    Encoded =>
        /\ OutHead.next # 0
        /\ OutBody = BodyBytes
        /\ Len(out.bytes) = SumLen(OutHead.lines) + 2 + Len(BodyBytes)

\* a Text body of one two-byte character was encoded after a header
C10_Witness ==
    /\ Encoded
    /\ req.body.kind = "Text"
    /\ req.body.text = <<233>>
    /\ Len(req.headers) >= 1
    /\ OutBody = <<195, 169>>

\* C11: every header line carries the name with exactly the letter case the
\* caller supplied when inserting the header (Host is emitted as Host).
C11_NamesAsSupplied ==
    Encoded =>
        /\ Len(OutHeaderEntries) = Len(req.inserted)
        /\ \A k \in 1..Len(req.inserted) :
              OutHeaderEntries[k].name = req.inserted[k].name

\* some header value of the request cannot be rendered as text
SomeValueNotText ==
    \E k \in 1..Len(req.headers) : ~to_str_ok(req.headers[k].value)

\* C18: encode returns an error and no buffer exactly when the request has
\* no URI or some header value is not text, and the complete buffer (request
\* line, one line per header, blank line, body) for every other request.
C18_ErrorOrCompleteBuffer ==
    (req.built /\ out.kind # "None") =>
        /\ out.kind \in {"Ok", "Err"}
        /\ out.kind = "Err" <=> (~req.uri.set \/ SomeValueNotText)
        /\ out.kind = "Err" => out.bytes = <<>>
        /\ out.kind = "Ok" =>
              /\ OutHead.next # 0
              /\ Len(OutHead.lines) = 1 + Len(req.headers)
              /\ OutBody = BodyBytes

\* a request with a URI whose second header value is not text was refused
C18_Witness ==
    /\ req.built
    /\ out.kind = "Err"
    /\ req.uri.set
    /\ Len(req.headers) = 2
    /\ to_str_ok(req.headers[1].value)
    /\ ~to_str_ok(req.headers[2].value)

\* C19: body_length is 0 for an Empty body, the byte length of the string
\* for a Text body and the buffer length for a Binary body, and it is the
\* number of bytes encode writes after the blank line.
C19_BodyLength ==
    Encoded =>
        /\ Body_body_length(req.body) = Len(OutBody)
        /\ req.body.kind = "Empty" => Body_body_length(req.body) = 0
        /\ req.body.kind = "Binary"
              => Body_body_length(req.body) = Len(req.body.bytes)
        /\ req.body.kind = "Text"
              => Body_body_length(req.body) >= Len(req.body.text)

\* a Text body of two characters and three bytes was encoded
C19_Witness ==
    /\ Encoded
    /\ req.body = Body_from_string(<<225, 33>>)
    /\ Body_body_length(req.body) = 3
    /\ Len(OutBody) = 3

(***************************************************************************)
(* The transport: HttpConnector (src/proto/http1/conn.rs).  stream is the  *)
(* Option<TcpStream>; what the socket answers is the environment's choice: *)
(* io is "Ok" or "Err", n the bytes the socket took before it answered.    *)
(* A panic ends the process: ret = "Panic", and nothing is called after    *)
(* it.                                                                     *)
(***************************************************************************)
IoOutcomes == {"Ok", "Err"}

\* HttpConnector::new
HttpConnector_new ==
    [stream |-> "None", op |-> "new", ret |-> "Ok", sent |-> <<>>]

\* panic!("... no connection opened, please open connection first")
no_connection_opened(c, op) == [c EXCEPT !.op = op, !.ret = "Panic"]

\* Connector::connect_to: create_connection(addr)?, self.stream = Some(stream)
HttpConnector_connect_to(c, io) ==
    IF io = "Ok"
       THEN [stream |-> "Some", op |-> "connect_to", ret |-> "Ok",
             sent |-> <<>>]
       ELSE [c EXCEPT !.op = "connect_to", !.ret = "Err"]

\* HttpConnector::read_exact
HttpConnector_read_exact(c, io) ==
    IF c.stream = "Some"
       THEN [c EXCEPT !.op = "read_exact", !.ret = io]
       ELSE no_connection_opened(c, "read_exact")

\* HttpConnector::read_all
HttpConnector_read_all(c, io) ==
    IF c.stream = "Some"
       THEN [c EXCEPT !.op = "read_all", !.ret = io]
       ELSE no_connection_opened(c, "read_all")

\* HttpConnector::write_all
HttpConnector_write_all(c, b, io, n) ==
    IF c.stream = "Some"
       THEN IF io = "Ok"
               THEN [c EXCEPT !.op = "write_all", !.ret = "Ok",
                              !.sent = @ \o b]
               ELSE [c EXCEPT !.op = "write_all", !.ret = "Err",
                              !.sent = @ \o SubSeq(b, 1, n)]
       ELSE no_connection_opened(c, "write_all")

\* HttpConnector::write_body: write_all(..)? for a Text or Binary body,
\* nothing for an Empty one, then Ok(())
HttpConnector_write_body(c, body, io, n) ==
    CASE body.kind = "Text" ->
           [HttpConnector_write_all(c, Utf8(body.text), io, n)
               EXCEPT !.op = "write_body"]
      [] body.kind = "Binary" ->
           [HttpConnector_write_all(c, body.bytes, io, n)
               EXCEPT !.op = "write_body"]
      [] body.kind = "Empty" -> [c EXCEPT !.op = "write_body", !.ret = "Ok"]

\* impl Read for HttpConnector: read
HttpConnector_read(c, io) ==
    IF c.stream = "Some"
       THEN [c EXCEPT !.op = "read", !.ret = io]
       ELSE no_connection_opened(c, "read")

\* impl Write for HttpConnector: write; Ok(n) with n of the bytes taken
HttpConnector_write(c, b, io, n) ==
    IF c.stream = "Some"
       THEN IF io = "Ok"
               THEN [c EXCEPT !.op = "write", !.ret = "Ok",
                              !.sent = @ \o SubSeq(b, 1, n)]
               ELSE [c EXCEPT !.op = "write", !.ret = "Err"]
       ELSE no_connection_opened(c, "write")

\* impl Write for HttpConnector: flush
HttpConnector_flush(c, io) ==
    IF c.stream = "Some"
       THEN [c EXCEPT !.op = "flush", !.ret = io]
       ELSE no_connection_opened(c, "flush")

\* the buffers a caller writes
WriteBufs == { <<>>, <<104>>, <<104, 105>> }                    \* "", "h", "hi"

InitConn ==
    /\ conn = HttpConnector_new
    /\ client = NoClient
    /\ buf = <<>>
    /\ keep_alive = FALSE
    /\ result = NoResult
    /\ wire = NoWire
    /\ req = NoRequest
    /\ out = NoOutput
    /\ call = NoCall

Running == conn.ret # "Panic"

Connect ==
    /\ Running
    /\ \E io \in IoOutcomes : conn' = HttpConnector_connect_to(conn, io)
    /\ UNCHANGED <<buf, keep_alive, result, wire, req, out, call, client>>

ReadExact ==
    /\ Running
    /\ \E io \in IoOutcomes : conn' = HttpConnector_read_exact(conn, io)
    /\ UNCHANGED <<buf, keep_alive, result, wire, req, out, call, client>>

ReadAll ==
    /\ Running
    /\ \E io \in IoOutcomes : conn' = HttpConnector_read_all(conn, io)
    /\ UNCHANGED <<buf, keep_alive, result, wire, req, out, call, client>>

WriteAll ==
    /\ Running
    /\ \E b \in WriteBufs, io \in IoOutcomes, n \in 0..MaxSent :
          /\ Len(conn.sent) + Len(b) <= MaxSent
          /\ n <= Len(b)
          /\ conn' = HttpConnector_write_all(conn, b, io, n)
    /\ UNCHANGED <<buf, keep_alive, result, wire, req, out, call, client>>

WriteBody ==
    /\ Running
    /\ \E body \in Bodies, io \in IoOutcomes, n \in 0..MaxSent :
          /\ Len(conn.sent) + Body_body_length(body) <= MaxSent
          /\ n <= Body_body_length(body)
          /\ conn' = HttpConnector_write_body(conn, body, io, n)
    /\ UNCHANGED <<buf, keep_alive, result, wire, req, out, call, client>>

Read ==
    /\ Running
    /\ \E io \in IoOutcomes : conn' = HttpConnector_read(conn, io)
    /\ UNCHANGED <<buf, keep_alive, result, wire, req, out, call, client>>

Write ==
    /\ Running
    /\ \E b \in WriteBufs, io \in IoOutcomes, n \in 0..MaxSent :
          /\ Len(conn.sent) + Len(b) <= MaxSent
          /\ n <= Len(b)
          /\ conn' = HttpConnector_write(conn, b, io, n)
    /\ UNCHANGED <<buf, keep_alive, result, wire, req, out, call, client>>

Flush ==
    /\ Running
    /\ \E io \in IoOutcomes : conn' = HttpConnector_flush(conn, io)
    /\ UNCHANGED <<buf, keep_alive, result, wire, req, out, call, client>>

NextConn ==
    Connect \/ ReadExact \/ ReadAll \/ WriteAll \/ WriteBody \/ Read
        \/ Write \/ Flush

SpecConn == InitConn /\ [][NextConn]_vars

IoOps ==
    {"read", "read_exact", "read_all", "write", "write_all", "write_body",
     "flush"}

\* C20: every read or write operation of the connector called while no
\* stream is open returns a not-connected error to its caller.
C20_DisconnectedOpsReturnNotConnected ==
    (conn.op \in IoOps /\ conn.stream = "None")
        => conn.ret = "NotConnected"


(***************************************************************************)
(* Claim about the legacy Client and RequestParser::encode.                *)
(***************************************************************************)
\* the request with the same method, url, version and headers whose body is
\* the vector of the bytes of a Binary body
VecRequest(r) == [r EXCEPT !.body = r.body.bytes]

\* C29: for a request with a Binary body, Client::new of the same request
\* with the body bytes as a vector builds the buffer that
\* RequestParser::encode returns, with or without a query in the url.
C29_LegacySameBytes ==
    (out.kind # "None" /\ req.body.kind = "Binary")
        => Client_new(VecRequest(req)) = out


(***************************************************************************)
(* HttpClient (src/client/client.rs).  send_request puts a request         *)
(* together and hands it to send; send runs its steps one after the other, *)
(* each `?` returning the error of the step that failed.  conn is the      *)
(* client's connector, req the request handed to send, out the encoded     *)
(* request, buf the bytes read, keep_alive the flag of the ResponseParser  *)
(* of the last call.                                                       *)
(***************************************************************************)
\* a usize as Display writes it
RECURSIVE Decimal(_)
Decimal(n) ==
    IF n < 10 THEN <<48 + n>> ELSE Decimal(n \div 10) \o <<48 + (n % 10)>>

H_HOST == <<72, 111, 115, 116>>                                    \* "Host"

H_CONTENT_LENGTH ==                                        \* "Content-Length"
    <<67, 111, 110, 116, 101, 110, 116, 45, 76, 101, 110, 103, 116, 104>>

H_USER_AGENT == <<85, 115, 101, 114, 45, 65, 103, 101, 110, 116>>
                                                               \* "User-Agent"
V_REQUEST_RS == <<114, 101, 113, 117, 101, 115, 116, 45, 114, 115>>
                                                               \* "request-rs"

\* Builder::header(name, value): the entry is appended to the header map
Builder_header(b, name, value) ==
    [b EXCEPT !.headers = HeaderMap_append(b.headers,
                              HeaderName_from_bytes(name), value),
              !.inserted = Append(b.inserted,
                              [name |-> name, value |-> value])]

\* Builder::replace_header_map(map): the map takes the place of the headers
Builder_replace_header_map(b, map) ==
    [b EXCEPT !.headers = map,
              !.inserted = [k \in 1..Len(map) |->
                               [name |-> map[k].name, value |-> map[k].value]]]

\* the urls a caller names: http://h/ and http://10.0.0.1/, which has no
\* domain
Url_h ==
    [set |-> TRUE, path |-> <<47>>, has_query |-> FALSE, query |-> <<>>,
     has_domain |-> TRUE, domain |-> <<104>>]

Url_ip ==
    [set |-> TRUE, path |-> <<47>>, has_query |-> FALSE, query |-> <<>>,
     has_domain |-> FALSE, domain |-> <<>>]

\* Url::parse(url) of the text the caller gives
UrlTexts ==
    { [ok |-> FALSE, url |-> Url_h] }
        \cup { [ok |-> TRUE, url |-> u] : u \in {Url_h, Url_ip} }

\* Option<HeaderMap> of the caller
CallerHeaders ==
    { [some |-> FALSE, map |-> <<>>],
      [some |-> TRUE,
       map |-> HeaderMap_append(<<>>, HeaderName_from_bytes(<<65>>), <<118>>)],
      [some |-> TRUE,
       map |-> HeaderMap_append(<<>>, HeaderName_from_bytes(H_HOST), <<120>>)],
      [some |-> TRUE,
       map |-> HeaderMap_append(<<>>,
                   HeaderName_from_bytes(H_CONTENT_LENGTH), <<57>>)] }

\* Option<Body> of the caller
CallerBodies ==
    { [some |-> FALSE, body |-> Body_empty],
      [some |-> TRUE, body |-> Body_from_str(<<233>>)],
      [some |-> TRUE, body |-> Body_from_bytes(<<0, 13, 10, 255>>)] }

\* HttpClient::send_request up to the call of send: Err, or the request
\* handed to send
HttpClient_send_request(url, method, headers, body) ==
    IF ~url.ok THEN [kind |-> "UrlParse", req |-> NoRequest]
    ELSE IF ~url.url.has_domain THEN [kind |-> "InvalidUrl", req |-> NoRequest]
    ELSE LET b0 == [Builder_new EXCEPT !.method = method,
                                       !.version = "HTTP_11"]
             b1 == IF headers.some
                      THEN Builder_replace_header_map(b0, headers.map)
                      ELSE Builder_header(b0, H_USER_AGENT, V_REQUEST_RS)
             bd == IF body.some THEN body.body ELSE Body_empty
             b2 == Builder_header(b1, H_HOST, url.url.domain)
             b3 == [b2 EXCEPT !.uri = url.url]
             b4 == Builder_header(b3, H_CONTENT_LENGTH,
                                  Decimal(Body_body_length(bd)))
         IN [kind |-> "Send", req |-> [b4 EXCEPT !.body = bd, !.built = TRUE]]


\* (mutant) the connection is opened before the request is encoded
send_steps_connect_first ==
    <<"url", "socket_addr", "connect_to", "encode", "write_all", "read_all",
      "parse">>

\* the steps of HttpClient::send in the order of its statements
send_steps ==
    <<"url", "socket_addr", "encode", "connect_to", "write_all", "read_all",
      "parse">>

\* the step went through: on to the next statement
send_ok(cl, step) ==
    [cl EXCEPT !.pc = @ + 1, !.steps = Append(@, step)]

\* the `?` of a step: send returns its error
send_err(cl, step, e) ==
    [cl EXCEPT !.pc = 0, !.steps = Append(@, step), !.ret = e]

\* a panic inside a step
send_panic(cl, step) ==
    [cl EXCEPT !.pc = 0, !.steps = Append(@, step), !.ret = "Panic"]

\* (mutant) a stream the last response declared reusable is kept
send_connect_to_keep_alive(c, io, ka) ==
    IF ka /\ c.stream = "Some"
       THEN [c EXCEPT !.op = "connect_to", !.ret = "Ok"]
       ELSE HttpConnector_connect_to(c, io)

\* self.connector.connect_to(&sock_addr)?, whatever flag the parser of the
\* call before computed
send_connect_to(c, io, ka) == HttpConnector_connect_to(c, io)

\* (mutant) a Partial answer is returned as a response
send_match_lenient(kind) ==
    CASE kind = "Complete" -> "Ok"
      [] kind = "Partial" -> "Ok"
      [] kind = "Error" -> "Parse"
      [] kind = "Abort" -> "Panic"

\* match parser.parse(&mut buf)? { Complete(resp) => resp, Partial =>
\* return Err(UnexpectedEof) }
send_match(kind) ==
    CASE kind = "Complete" -> "Ok"
      [] kind = "Partial" -> "UnexpectedEof"
      [] kind = "Error" -> "Parse"
      [] kind = "Abort" -> "Panic"

\* the requests a caller hands to send itself: one without a url, one whose
\* header value is not text, and two that can be encoded
SentRequests ==
    { [Builder_new EXCEPT !.built = TRUE],
      [Builder_header([Builder_new EXCEPT !.uri = Url_h], <<65>>, <<200>>)
          EXCEPT !.built = TRUE],
      [Builder_new EXCEPT !.uri = Url_h, !.built = TRUE],
      [Builder_new EXCEPT !.uri = Url_ip, !.method = "POST",
                          !.body = Body_from_str(<<117, 61, 49>>),
                          !.built = TRUE] }

\* what read_to_end delivers before the peer closes: nothing, half a status
\* line, a head without its blank line, a malformed status line, and
\* complete responses
Replies ==
    { <<>>,
      <<72, 84, 84, 80, 47>>,                                      \* "HTTP/"
      StatusLine(1, 200) \o HeaderLine(H_A),
      <<72, 84, 84, 80, 47, 50>> \o CRLF \o CRLF,                  \* "HTTP/2"
      WireBytes([version |-> 1, code |-> 200, headers |-> <<>>,
                 body |-> <<120, 121>>]),
      WireBytes([version |-> 0, code |-> 404, headers |-> <<>>,
                 body |-> <<>>]),
      WireBytes([version |-> 1, code |-> 200,
                 headers |-> <<[name |-> H_CONNECTION,
                                value |-> NEEDLE_CLOSE]>>,
                 body |-> <<120>>]),
      WireBytes([version |-> 1, code |-> 200, headers |-> <<H_A>>,
                 body |-> <<>>]) }

\* HttpClient::http(): a client with a new connector
InitSend ==
    /\ conn = HttpConnector_new
    /\ client = NoClient
    /\ req = NoRequest
    /\ out = NoOutput
    /\ buf = <<>>
    /\ keep_alive = FALSE
    /\ result = NoResult
    /\ wire = NoWire
    /\ call = NoCall

Idle == client.pc = 0 /\ client.ret # "Panic" /\ client.calls < MaxSends

At(step) == client.pc > 0 /\ send_steps[client.pc] = step

\* client.send(req)
SendCall ==
    /\ Idle
    /\ \E r \in SentRequests :
          /\ req' = r
          /\ client' = [calls |-> client.calls + 1, pc |-> 1, steps |-> <<>>,
                        ret |-> "None", parsed |-> "None", via |-> "send"]
    /\ out' = NoOutput
    /\ buf' = <<>>
    /\ UNCHANGED <<conn, keep_alive, result, wire, call>>

\* client.send_request(url, method, headers, body)
SendRequestCall ==
    /\ Idle
    /\ \E url \in UrlTexts, method \in {"GET", "POST"},
          headers \in CallerHeaders, body \in CallerBodies :
          \E s \in {HttpClient_send_request(url, method, headers, body)} :
             /\ req' = s.req
             /\ client' = [calls |-> client.calls + 1,
                           pc |-> IF s.kind = "Send" THEN 1 ELSE 0,
                           steps |-> <<>>,
                           ret |-> IF s.kind = "Send" THEN "None" ELSE s.kind,
                           parsed |-> "None", via |-> "send_request"]
    /\ out' = NoOutput
    /\ buf' = <<>>
    /\ UNCHANGED <<conn, keep_alive, result, wire, call>>

\* req.uri().ok_or(missing url)?
SendUrl ==
    /\ At("url")
    /\ client' = IF req.uri.set THEN send_ok(client, "url")
                 ELSE send_err(client, "url", "MissingUrl")
    /\ UNCHANGED <<req, out, conn, buf, keep_alive, result, wire, call>>

\* RequestParser::socket_addr(&url)?: the resolver answers or fails
SendSocketAddr ==
    /\ At("socket_addr")
    /\ \E io \in IoOutcomes :
          client' = IF io = "Ok" THEN send_ok(client, "socket_addr")
                    ELSE send_err(client, "socket_addr", "Resolve")
    /\ UNCHANGED <<req, out, conn, buf, keep_alive, result, wire, call>>

\* RequestParser::encode(req)?
SendEncode ==
    /\ At("encode")
    /\ \E e \in {RequestParser_encode(req)} :
          /\ out' = e
          /\ client' = IF e.kind = "Ok" THEN send_ok(client, "encode")
                       ELSE send_err(client, "encode", "Encode")
    /\ UNCHANGED <<req, conn, buf, keep_alive, result, wire, call>>

\* self.connector.connect_to(&sock_addr)?
SendConnectTo ==
    /\ At("connect_to")
    /\ \E io \in IoOutcomes :
          \E c \in {send_connect_to(conn, io, keep_alive)} :
             /\ conn' = c
             /\ client' = IF c.ret = "Ok" THEN send_ok(client, "connect_to")
                          ELSE send_err(client, "connect_to", "Connect")
    /\ UNCHANGED <<req, out, buf, keep_alive, result, wire, call>>

\* self.connector.write_all(req_buf.as_ref())?: the socket takes every byte,
\* or fails after none or half of them
SendWriteAll ==
    /\ At("write_all")
    /\ \E io \in IoOutcomes, n \in {0, Len(out.bytes) \div 2} :
          \E c \in {HttpConnector_write_all(conn, out.bytes, io, n)} :
             /\ conn' = c
             /\ client' = CASE c.ret = "Ok" -> send_ok(client, "write_all")
                            [] c.ret = "Err" ->
                                 send_err(client, "write_all", "Write")
                            [] c.ret = "Panic" ->
                                 send_panic(client, "write_all")
    /\ UNCHANGED <<req, out, buf, keep_alive, result, wire, call>>

\* self.connector.read_all(&mut data)?, BytesMut::from(data.as_slice())
SendReadAll ==
    /\ At("read_all")
    /\ \E io \in IoOutcomes, data \in Replies :
          \E c \in {HttpConnector_read_all(conn, io)} :
             /\ conn' = c
             /\ buf' = IF c.ret = "Ok" THEN data ELSE <<>>
             /\ client' = CASE c.ret = "Ok" -> send_ok(client, "read_all")
                            [] c.ret = "Err" ->
                                 send_err(client, "read_all", "Read")
                            [] c.ret = "Panic" ->
                                 send_panic(client, "read_all")
    /\ UNCHANGED <<req, out, keep_alive, result, wire, call>>

\* ResponseParser::new(), parser.parse(&mut buf)? and the match on its answer
SendParse ==
    /\ At("parse")
    /\ \E build \in Builds :
          \E p \in {ResponseParser_parse(buf, FALSE, build)} :
             /\ buf' = p.buf
             /\ keep_alive' = p.keep_alive
             /\ client' = [client EXCEPT !.pc = 0,
                                         !.steps = Append(@, "parse"),
                                         !.parsed = p.kind,
                                         !.ret = send_match(p.kind)]
    /\ UNCHANGED <<req, out, conn, result, wire, call>>

NextSend ==
    SendCall \/ SendRequestCall \/ SendUrl \/ SendSocketAddr \/ SendEncode
        \/ SendConnectTo \/ SendWriteAll \/ SendReadAll \/ SendParse

SpecSend == InitSend /\ [][NextSend]_vars


(***************************************************************************)
(* Claims about HttpClient.                                                *)
(***************************************************************************)
\* the entries of the request handed to send that carry the given name
EntriesNamed(name) ==
    {k \in 1..Len(HeaderMap_iter(req.headers)) :
        HeaderMap_iter(req.headers)[k].name = HeaderName_from_bytes(name)}

HandedToSend == client.via = "send_request" /\ req.built

\* C30: the request send_request hands to send has exactly one
\* Content-Length header, whose value is body_length of its body, and
\* exactly one Host header, whose value is the domain of the url, whatever
\* header map the caller gave.
C30_OneHostOneContentLength ==
    HandedToSend =>
        /\ \E k \in EntriesNamed(H_HOST) :
              /\ EntriesNamed(H_HOST) = {k}
              /\ HeaderMap_iter(req.headers)[k].value = req.uri.domain
        /\ \E k \in EntriesNamed(H_CONTENT_LENGTH) :
              /\ EntriesNamed(H_CONTENT_LENGTH) = {k}
              /\ HeaderMap_iter(req.headers)[k].value
                     = Decimal(Body_body_length(req.body))

\* the part of C30 that holds: the last Host entry is the domain and the last
\* Content-Length entry the length of the body
C30_LastEntriesAreTheClients ==
    HandedToSend =>
        LET hs == HeaderMap_iter(req.headers) IN
        /\ Len(hs) >= 2
        /\ hs[Len(hs) - 1] = [name |-> HeaderName_from_bytes(H_HOST),
                              value |-> req.uri.domain]
        /\ hs[Len(hs)] = [name |-> HeaderName_from_bytes(H_CONTENT_LENGTH),
                          value |-> Decimal(Body_body_length(req.body))]


Done(step) == step \in Range(client.steps)

Before(a, b) ==
    \E i, j \in 1..Len(client.steps) :
        i < j /\ client.steps[i] = a /\ client.steps[j] = b

\* C25: every call of send opens a connection with connect_to before it
\* writes, whatever keep-alive flag the decoder computed for the response
\* before, and the stream written to carries the bytes of this one request
\* only: no connection has a second request written to it.
C25_OneRequestPerConnection ==
    Done("write_all") =>
        /\ Before("connect_to", "write_all")
        /\ IsPrefix(conn.sent, out.bytes)

\* the second call wrote its request while the flag of the first response
\* says the connection could be kept
C25_Witness ==
    /\ client.calls = 2
    /\ keep_alive
    /\ Done("write_all")
    /\ conn.ret = "Ok"
    /\ conn.sent = out.bytes
    /\ out.bytes # <<>>

\* C27: when the decoder answers Partial on the bytes read until end of
\* stream, send returns an UnexpectedEof error; send returns Ok only when
\* the decoder answered Complete.
C27_PartialIsUnexpectedEof ==
    /\ client.parsed = "Partial" => client.ret = "UnexpectedEof"
    /\ client.ret = "Ok" => client.parsed = "Complete"

\* a head without its blank line was read, and send returned the error
C27_Witness ==
    /\ client.parsed = "Partial"
    /\ client.ret = "UnexpectedEof"
    /\ buf = StatusLine(1, 200) \o HeaderLine(H_A)

\* the order in which the claim lists the steps
ClaimedOrder ==
    <<"url", "socket_addr", "encode", "connect_to", "write_all", "read_all",
      "parse">>

\* the step whose failure an error of send reports
StepOf(e) ==
    CASE e = "MissingUrl" -> "url"
      [] e = "Resolve" -> "socket_addr"
      [] e = "Encode" -> "encode"
      [] e = "Connect" -> "connect_to"
      [] e = "Write" -> "write_all"
      [] e = "Read" -> "read_all"
      [] e \in {"UnexpectedEof", "Parse"} -> "parse"

SendErrors ==
    {"MissingUrl", "Resolve", "Encode", "Connect", "Write", "Read",
     "UnexpectedEof", "Parse"}

\* C28: send runs resolve, encode, connect, write, read, parse in this
\* order; a request without a url, a failed resolution or a failed encoding
\* leaves the connector as it was, nothing opened and nothing written;
\* nothing is read before the whole encoded request was written; a failed
\* step ends the call with its error.
C28_FixedOrder ==
    /\ IsPrefix(client.steps, ClaimedOrder)
    /\ client.ret \in {"MissingUrl", "Resolve", "Encode"} =>
          /\ ~Done("connect_to") /\ ~Done("write_all")
          /\ client.calls = 1 => conn = HttpConnector_new
    /\ Done("read_all") => (out.kind = "Ok" /\ conn.sent = out.bytes)
    /\ (client.ret \in SendErrors /\ client.via = "send") =>
          /\ client.pc = 0
          /\ client.steps # <<>>
          /\ client.steps[Len(client.steps)] = StepOf(client.ret)

\* the encoding failed and no connection was opened
C28_Witness ==
    /\ client.ret = "Encode"
    /\ client.steps = <<"url", "socket_addr", "encode">>
    /\ conn = HttpConnector_new

====
